---- MODULE Spec2Model ----
(***************************************************************************)
(* Doc_chat: the question-answering backend.                               *)
(*                                                                         *)
(*   backend/backend2.py          session store helpers and the HTTP       *)
(*                                endpoints (ask_question, process_file,   *)
(*                                delete_file, start_session)              *)
(*   backend/utils/chat/chat4.py  get_chat_response (the two-argument      *)
(*                                variant backend2.py calls), the merger   *)
(*                                combine_and_select_top_chunks and the    *)
(*                                message history                         *)
(*   backend/utils/chat/chat2.py  the other variant of the merger          *)
(*                                                                         *)
(* Requests are handled by workers that share the ChromaDB server; one     *)
(* step of the model is the code between two calls to an external service  *)
(* (the session collection, ollama, the vector index) or between two       *)
(* yields of the response generator.                                       *)
(***************************************************************************)
EXTENDS Integers, Sequences, FiniteSets, TLC

VARIABLES
    session_collection,   \* the "sessions" collection: session id -> document
    file_hash_map,        \* backend2.file_hash_map: names of the processed files
    collections,          \* names of the collections in the vector index
    uploads,              \* files in the uploads directory
    message_history,      \* chat4.message_history
    pc,                   \* per request: where its handler stands
    req,                  \* per request: header, question, file_names
    session,              \* per request: ask_question's local `session`
    upd,                  \* per request: update_session's local `session`
    resp,                 \* per request: the HTTP response
    results_list,         \* per request: get_chat_response's results_list
    response,             \* per request: get_chat_response's accumulator
    yielded,              \* per request: the chunks the generator yielded
    error_log,            \* per request: the stage whose exception was printed
    top_files,            \* per request: get_chat_response's file_names
    calls,                \* per request: the external calls it made
    append_log,           \* per session: the messages update_session wrote, in order
    m_in,                 \* merger on its own: the arguments
    m_out,                \* merger on its own: the values returned
    ret,                  \* session helpers on their own: the last call and its outcome
    history_file,         \* message_history.json: its content and how often it was written
    stored                \* the arguments of the last store_message_history call

store == <<session_collection, append_log>>

files == <<file_hash_map, collections, uploads>>

stream == <<results_list, response, yielded, error_log, top_files>>

merger == <<m_in, m_out>>

history == <<message_history, history_file, stored>>

vars == <<store, files, history, pc, req, session, upd, resp, stream,
          calls, merger, ret>>

(***************************************************************************)
(* Bounds of the model                                                     *)
(***************************************************************************)
MaxNames == 2        \* file names in one question
MaxTokens == 2       \* chunks the language model streams for one question
MaxFrags == 2        \* fragments in one collection's result (merger alone)
MaxDist == 1         \* distances are 0..MaxDist
MaxTopN == 2         \* top_n is 1..MaxTopN, or the default
MaxHistory == 2      \* turns of one session (session helpers alone)
MaxMalformedFrags == 1   \* fragments in one result next to a malformed one
MaxLoaded == 2       \* entries of the message history loaded at the start

DefaultTopN == 7

(***************************************************************************)
(* Helpers on sequences                                                    *)
(***************************************************************************)
Min(a, b) == IF a <= b THEN a ELSE b

SeqsUpTo(S, n) == UNION {[1..k -> S] : k \in 0..n}

IsPrefix(s, t) == Len(s) <= Len(t) /\ SubSeq(t, 1, Len(s)) = s

Count(s, x) == Cardinality({i \in 1..Len(s) : s[i] = x})

RECURSIVE Flatten(_)
Flatten(ss) == IF ss = <<>> THEN <<>> ELSE Head(ss) \o Flatten(Tail(ss))

(***************************************************************************)
(* The merger: combine_and_select_top_chunks                               *)
(*                                                                         *)
(* A query result is a record [distances, documents], each the outer list  *)
(* the index returns (one inner list per query embedding); a key that is   *)
(* absent reads as the empty outer list, as result.get(key, []) does.      *)
(***************************************************************************)
Texts == {"A", "B"}

Distances == 0..MaxDist

\* zip(distances, documents, [collection_name]*len(documents))
zip(distances, documents, collection_name) ==
    [i \in 1..Min(Len(distances), Len(documents)) |->
        [distance |-> distances[i], doc |-> documents[i],
         file_name |-> collection_name]]

\* result.get("distances", [])[0] or result.get("documents", [])[0] raises
raises_IndexError(results) ==
    Len(results.distances) = 0 \/ Len(results.documents) = 0

\* the loop that fills combined_results
combined_results(rl) ==
    Flatten([i \in 1..Len(rl) |->
        zip(rl[i].results.distances[1], rl[i].results.documents[1],
            rl[i].collection_name)])

\* what sorting the tuples themselves would do: the text decides between
\* equal distances
insert_by_distance_then_text(s, x) ==
    IF s = <<>> THEN <<x>>
    ELSE LET n == Len(s)
             before(a, b) == a.distance < b.distance
                             \/ (a.distance = b.distance /\ a.doc = "A" /\ b.doc = "B")
             k == Cardinality({i \in 1..n : ~before(x, s[i])})
         IN  SubSeq(s, 1, k) \o <<x>> \o SubSeq(s, k + 1, n)

\* x goes after every element whose key is not greater: the order list.sort
\* gives equal keys
RECURSIVE insert_stable(_, _)
insert_stable(s, x) ==
    IF s = <<>> THEN <<x>>
    ELSE IF s[Len(s)].distance <= x.distance THEN Append(s, x)
    ELSE Append(insert_stable(SubSeq(s, 1, Len(s) - 1), x), s[Len(s)])

RECURSIVE sort_by_distance(_)
\* combined_results.sort(key=lambda x: x[0])
sort_by_distance(s) ==
    IF s = <<>> THEN <<>>
    ELSE insert_stable(sort_by_distance(SubSeq(s, 1, Len(s) - 1)), s[Len(s)])

slice_one_short(s, top_n) == SubSeq(s, 1, Min(top_n - 1, Len(s)))

\* combined_results[:top_n]
slice(s, top_n) == SubSeq(s, 1, Min(top_n, Len(s)))

\* what a merger that kept one fragment of each text would select
RECURSIVE first_of_each_text(_)
first_of_each_text(s) ==
    IF s = <<>> THEN <<>>
    ELSE LET init == first_of_each_text(SubSeq(s, 1, Len(s) - 1))
         IN  IF \E i \in 1..Len(init) : init[i].doc = s[Len(s)].doc
             THEN init ELSE Append(init, s[Len(s)])

selected_one_of_each_text(rl, top_n) ==
    slice(first_of_each_text(sort_by_distance(combined_results(rl))), top_n)

\* the sorted and truncated combined_results
selected(rl, top_n) == slice(sort_by_distance(combined_results(rl)), top_n)

\* what a merger that skipped the results it cannot read would return
combine_skipping_malformed(rl, top_n) ==
    LET sel == selected(SelectSeq(rl, LAMBDA x : ~raises_IndexError(x.results)), top_n)
    IN  [top_chunks |-> [i \in 1..Len(sel) |-> sel[i].doc],
         file_names |-> [i \in 1..Len(sel) |-> sel[i].file_name]]

\* chat4.py: returns (top_chunks, file_names); ([], []) when anything raised
combine_and_select_top_chunks(rl, top_n) ==
    IF \E i \in 1..Len(rl) : raises_IndexError(rl[i].results)
    THEN [top_chunks |-> <<>>, file_names |-> <<>>]
    ELSE LET sel == selected(rl, top_n)
         IN  [top_chunks |-> [i \in 1..Len(sel) |-> sel[i].doc],
              file_names |-> [i \in 1..Len(sel) |-> sel[i].file_name]]

\* chat2.py: the same merger over the bare results, returning top_chunks
combine_and_select_top_chunks_chat2(rs, top_n) ==
    IF \E i \in 1..Len(rs) : raises_IndexError(rs[i])
    THEN <<>>
    ELSE LET rl == [i \in 1..Len(rs) |-> [collection_name |-> "", results |-> rs[i]]]
             sel == selected(rl, top_n)
         IN  [i \in 1..Len(sel) |-> sel[i].doc]

\* what collection.query returns for one query embedding: one inner list of
\* distances and one of documents, of the same length
QueryResults(maxFrags) ==
    {[distances |-> <<[i \in 1..Len(f) |-> f[i][1]]>>,
      documents |-> <<[i \in 1..Len(f) |-> f[i][2]]>>] :
        f \in SeqsUpTo(Distances \X Texts, maxFrags)}

\* a result without its distances, without its documents, or without both:
\* the key is missing or its outer list is empty
MalformedResults(maxFrags) ==
    {[distances |-> IF lacks \in {"distances", "both"} THEN <<>> ELSE q.distances,
      documents |-> IF lacks \in {"documents", "both"} THEN <<>> ELSE q.documents] :
        q \in QueryResults(maxFrags), lacks \in {"distances", "documents", "both"}}

(***************************************************************************)
(* The application state                                                   *)
(***************************************************************************)
Requests == {"r1", "r2"}

SessionIds == {"s1", "s2"}

\* the session-id header: a session id, or "" when the header is absent
Headers == SessionIds \cup {""}

Questions == {"", "q1"}

\* the files that get uploaded
FileNames == {"f1", "f2"}

\* the names a question can carry: the files, and a name no file has
AskNames == FileNames \cup {"f3"}

\* the k-th chunk ollama streams
token(k) == IF k = 1 THEN "The capital" ELSE IF k = 2 THEN " is" ELSE " Paris"

NoSession == [session_id |-> "", conversation_history |-> <<>>]

NoRequest == [session_id |-> "", question |-> "", file_names |-> <<>>]

NoResponse == [status |-> 0, error |-> ""]

NoCalls == [embed |-> 0, search |-> <<>>, chat |-> 0, append |-> <<>>]

\* generate_response: the text the assistant turn is given
generate_response(conversation_history) ==
    "This is a placeholder response based on the conversation history."

Turn(role, content) == [role |-> role, content |-> content]

\* session_collection.get_documents(query={"session_id": session_id}), then
\* results[0], or None (here NoSession) when nothing matches
get_session(docs, session_id) ==
    IF session_id \in DOMAIN docs
    THEN [session_id |-> session_id, conversation_history |-> docs[session_id]]
    ELSE NoSession

found(s) == s # NoSession

\* session_collection.add_documents / update_documents of one document
put_document(docs, session_id, conversation_history) ==
    [k \in DOMAIN docs \cup {session_id} |->
        IF k = session_id THEN conversation_history ELSE docs[k]]

\* store_message_history was not called yet
NoStore == [question |-> "", response |-> "", file_name |-> ""]

\* no helper was called yet
NoCall == [op |-> "none", session_id |-> "", value |-> NoSession, raised |-> FALSE]

Init ==
    /\ session_collection = <<>>
    /\ append_log = <<>>
    /\ file_hash_map = {}
    /\ collections = {}
    /\ uploads = {}
    /\ message_history = <<>>
    /\ history_file = [content |-> <<>>, writes |-> 0]
    /\ stored = NoStore
    /\ pc = [r \in Requests |-> "idle"]
    /\ req = [r \in Requests |-> NoRequest]
    /\ session = [r \in Requests |-> NoSession]
    /\ upd = [r \in Requests |-> NoSession]
    /\ resp = [r \in Requests |-> NoResponse]
    /\ results_list = [r \in Requests |-> <<>>]
    /\ response = [r \in Requests |-> ""]
    /\ yielded = [r \in Requests |-> <<>>]
    /\ error_log = [r \in Requests |-> "none"]
    /\ top_files = [r \in Requests |-> <<>>]
    /\ calls = [r \in Requests |-> NoCalls]
    /\ m_in = [results_list |-> <<>>, top_n |-> DefaultTopN]
    /\ m_out = [called |-> FALSE, chat4 |-> [top_chunks |-> <<>>, file_names |-> <<>>],
                chat2 |-> <<>>]
    /\ ret = NoCall

(***************************************************************************)
(* start_session, process_file, delete_file                                *)
(***************************************************************************)
\* create_session: a fresh uuid4 and one add_documents
start_session ==
    /\ \E session_id \in SessionIds \ DOMAIN session_collection :
          /\ session_collection' = put_document(session_collection, session_id, <<>>)
          /\ append_log' = put_document(append_log, session_id, <<>>)
    /\ UNCHANGED <<files, history, pc, req, session, upd, resp, stream,
                   calls, merger, ret>>

\* add_to_hash_map(file.filename)
add_to_hash_map(map, file_name) == map \cup {file_name}

\* process_file: upload, extract, chunk, embed, store, register; an exception
\* at any stage ends the handler with what the earlier stages left behind
process_file ==
    /\ \E file_name \in FileNames, stage \in {"upload", "embed", "none"} :
          /\ uploads' = IF stage = "upload" THEN uploads ELSE uploads \cup {file_name}
          /\ collections' = IF stage = "none" THEN collections \cup {file_name}
                            ELSE collections
          /\ file_hash_map' = IF stage = "none"
                              THEN add_to_hash_map(file_hash_map, file_name)
                              ELSE file_hash_map
    /\ UNCHANGED <<store, history, pc, req, session, upd, resp, stream,
                   calls, merger, ret>>

\* delete_file: 404 when the file is not in uploads; otherwise the file is
\* removed, and its collection too unless delete_from_chromadb caught an
\* exception of the index
delete_file ==
    /\ \E file_name \in FileNames, deleted \in BOOLEAN :
          /\ file_name \in uploads
          /\ uploads' = uploads \ {file_name}
          /\ collections' = IF deleted THEN collections \ {file_name} ELSE collections
    /\ UNCHANGED <<store, file_hash_map, history, pc, req, session, upd,
                   resp, stream, calls, merger, ret>>

(***************************************************************************)
(* ask_question                                                            *)
(***************************************************************************)
last_missing(file_names, map) ==
    file_names[CHOOSE i \in 1..Len(file_names) :
                  /\ file_names[i] \notin map
                  /\ \A j \in (i + 1)..Len(file_names) : file_names[j] \in map]

\* the name the loop over file_names returns on
first_missing(file_names, map) ==
    file_names[CHOOSE i \in 1..Len(file_names) :
                  /\ file_names[i] \notin map
                  /\ \A j \in 1..(i - 1) : file_names[j] \in map]

checks_without_session_lookup(session_id, s, question, file_names, map) ==
    IF session_id = "" THEN [status |-> 400, error |-> "Session ID is required"]
    ELSE IF question = "" \/ file_names = <<>>
    THEN [status |-> 400, error |-> "Question and file_names are required"]
    ELSE IF map = {} THEN [status |-> 400, error |-> "No file uploaded"]
    ELSE IF \E i \in 1..Len(file_names) : file_names[i] \notin map
    THEN [status |-> 400, error |-> "File not found: " \o first_missing(file_names, map)]
    ELSE NoResponse

\* the checks of ask_question in the order the code makes them; NoResponse
\* when the request passes them all
ask_question_checks(session_id, s, question, file_names, map) ==
    IF session_id = "" THEN [status |-> 400, error |-> "Session ID is required"]
    ELSE IF ~found(s) THEN [status |-> 404, error |-> "Session not found"]
    ELSE IF question = "" \/ file_names = <<>>
    THEN [status |-> 400, error |-> "Question and file_names are required"]
    ELSE IF map = {} THEN [status |-> 400, error |-> "No file uploaded"]
    ELSE IF \E i \in 1..Len(file_names) : file_names[i] \notin map
    THEN [status |-> 400, error |-> "File not found: " \o first_missing(file_names, map)]
    ELSE NoResponse

\* ask_question up to its first update_session
ask_question(r) ==
    /\ pc[r] = "idle"
    /\ \E session_id \in Headers, question \in Questions,
          file_names \in SeqsUpTo(AskNames, MaxNames) :
          LET s == IF session_id = "" THEN NoSession
                   ELSE get_session(session_collection, session_id)
              out == ask_question_checks(session_id, s, question, file_names,
                                         file_hash_map)
          IN  /\ req' = [req EXCEPT ![r] = [session_id |-> session_id,
                                            question |-> question,
                                            file_names |-> file_names]]
              /\ resp' = [resp EXCEPT ![r] = out]
              /\ session' = [session EXCEPT ![r] = IF out = NoResponse THEN s
                                                   ELSE NoSession]
              /\ pc' = [pc EXCEPT ![r] = IF out = NoResponse THEN "update_user"
                                         ELSE "done"]
    /\ UNCHANGED <<store, files, history, upd, stream, calls, merger, ret>>

message_assistant_first(r) ==
    IF pc[r] \in {"update_user", "put_user"}
    THEN Turn("assistant", generate_response(session[r].conversation_history))
    ELSE Turn("user", req[r].question)

\* the message each update_session of ask_question is given
message(r) ==
    IF pc[r] \in {"update_user", "put_user"}
    THEN Turn("user", req[r].question)
    ELSE Turn("assistant", generate_response(session[r].conversation_history))

\* update_session, its read: session = get_session(session_id)
update_session_get(r) ==
    /\ pc[r] \in {"update_user", "update_assistant"}
    /\ LET s == get_session(session_collection, req[r].session_id)
       IN  /\ upd' = [upd EXCEPT ![r] = s]
           /\ pc' = [pc EXCEPT ![r] =
                        IF found(s)
                        THEN (IF pc[r] = "update_user" THEN "put_user"
                              ELSE "put_assistant")
                        ELSE (IF pc[r] = "update_user" THEN "update_assistant"
                              ELSE "embed")]
           /\ resp' = [resp EXCEPT ![r] =
                          IF ~found(s) /\ pc[r] = "update_assistant"
                          THEN [status |-> 200, error |-> ""] ELSE @]
    /\ UNCHANGED <<store, files, history, req, session, stream, calls, merger, ret>>

new_history_overwrites(conversation_history, msg) == <<msg>>

\* session["conversation_history"].append(message)
new_history(conversation_history, msg) == Append(conversation_history, msg)

update_session_put_every_session(r) ==
    /\ pc[r] \in {"put_user", "put_assistant"}
    /\ session_collection' =
          [k \in DOMAIN session_collection |->
              new_history(upd[r].conversation_history, message(r))]
    /\ append_log' = [append_log EXCEPT ![req[r].session_id] = Append(@, message(r))]
    /\ calls' = [calls EXCEPT ![r].append = Append(@, message(r))]
    /\ upd' = [upd EXCEPT ![r] = NoSession]
    /\ pc' = [pc EXCEPT ![r] = IF pc[r] = "put_user" THEN "update_assistant"
                               ELSE "embed"]
    /\ session' = [session EXCEPT ![r] = IF pc[r] = "put_user" THEN @ ELSE NoSession]
    /\ resp' = [resp EXCEPT ![r] = IF pc[r] = "put_user" THEN @
                                   ELSE [status |-> 200, error |-> ""]]
    /\ UNCHANGED <<files, history, req, stream, merger, ret>>

\* update_session, its write: update_documents with the whole history; after
\* the second one ask_question returns the StreamingResponse
update_session_put(r) ==
    /\ pc[r] \in {"put_user", "put_assistant"}
    /\ session_collection' =
          put_document(session_collection, req[r].session_id,
                       new_history(upd[r].conversation_history, message(r)))
    /\ append_log' = [append_log EXCEPT ![req[r].session_id] = Append(@, message(r))]
    /\ calls' = [calls EXCEPT ![r].append = Append(@, message(r))]
    /\ upd' = [upd EXCEPT ![r] = NoSession]
    /\ pc' = [pc EXCEPT ![r] = IF pc[r] = "put_user" THEN "update_assistant"
                               ELSE "embed"]
    /\ session' = [session EXCEPT ![r] = IF pc[r] = "put_user" THEN @ ELSE NoSession]
    /\ resp' = [resp EXCEPT ![r] = IF pc[r] = "put_user" THEN @
                                   ELSE [status |-> 200, error |-> ""]]
    /\ UNCHANGED <<files, history, req, stream, merger, ret>>

(***************************************************************************)
(* get_chat_response (chat4.py), the generator the StreamingResponse drives *)
(***************************************************************************)
\* what one query of the pipeline can return: nothing, or the one chunk of
\* the collection at some distance
IndexAnswers ==
    {[distances |-> <<<<>>>>, documents |-> <<<<>>>>]}
    \cup {[distances |-> <<<<d>>>>, documents |-> <<<<"A">>>>] : d \in Distances}

raise_without_yield(r, stage) ==
    /\ error_log' = [error_log EXCEPT ![r] = stage]
    /\ yielded' = yielded
    /\ pc' = [pc EXCEPT ![r] = "done"]
    /\ results_list' = [results_list EXCEPT ![r] = <<>>]

\* the except branch: the error is printed and "" is yielded
raise(r, stage) ==
    /\ error_log' = [error_log EXCEPT ![r] = stage]
    /\ yielded' = [yielded EXCEPT ![r] = Append(@, "")]
    /\ pc' = [pc EXCEPT ![r] = "error_yield"]
    /\ results_list' = [results_list EXCEPT ![r] = <<>>]

\* ollama.embeddings(model="all-minilm", prompt=question)
embed(r) ==
    /\ pc[r] = "embed"
    /\ calls' = [calls EXCEPT ![r].embed = @ + 1]
    /\ \/ /\ pc' = [pc EXCEPT ![r] = "search"]
          /\ UNCHANGED <<error_log, yielded, results_list>>
       \/ raise(r, "embed")
    /\ UNCHANGED <<store, files, history, req, session, upd, resp, response,
                   top_files, merger, ret>>

\* one turn of the loop over collections, up to the call of the index:
\* get_collection, then collection.query is called and the handler waits
\* for what it returns
search(r) ==
    /\ pc[r] = "search"
    /\ LET i == Len(results_list[r]) + 1
           collection_name == req[r].file_names[i]
       IN  /\ calls' = [calls EXCEPT ![r].search = Append(@, collection_name)]
           /\ \/ /\ collection_name \in collections
                 /\ pc' = [pc EXCEPT ![r] = "query"]
                 /\ UNCHANGED <<error_log, yielded, results_list>>
              \/ raise(r, "search")
    /\ UNCHANGED <<store, files, history, req, session, upd, resp, response,
                   top_files, merger, ret>>

\* collection.query returns, or raises; results_list.append and the next
\* turn of the loop
query_returns(r) ==
    /\ pc[r] = "query"
    /\ LET i == Len(results_list[r]) + 1
           collection_name == req[r].file_names[i]
       IN  \/ /\ \E results \in IndexAnswers :
                    results_list' = [results_list EXCEPT ![r] =
                        Append(@, [collection_name |-> collection_name,
                                   results |-> results])]
              /\ pc' = [pc EXCEPT ![r] = IF i = Len(req[r].file_names)
                                         THEN "chat" ELSE "search"]
              /\ UNCHANGED <<error_log, yielded>>
           \/ raise(r, "search")
    /\ UNCHANGED <<store, files, history, req, session, upd, resp, response,
                   top_files, calls, merger, ret>>

\* combine_and_select_top_chunks(results_list, top_n=7), then ollama.chat
chat(r) ==
    /\ pc[r] = "chat"
    /\ calls' = [calls EXCEPT ![r].chat = @ + 1]
    /\ \/ /\ top_files' = [top_files EXCEPT ![r] =
                 combine_and_select_top_chunks(results_list[r], DefaultTopN).file_names]
          /\ results_list' = [results_list EXCEPT ![r] = <<>>]
          /\ pc' = [pc EXCEPT ![r] = "generate"]
          /\ UNCHANGED <<error_log, yielded>>
       \/ /\ raise(r, "chat")
          /\ UNCHANGED top_files
    /\ UNCHANGED <<store, files, history, req, session, upd, resp, response, merger, ret>>

\* any(entry["question"] == question and entry["response"] == response ...)
already_stored(entries, question, answer) ==
    \E i \in 1..Len(entries) :
        entries[i].question = question /\ entries[i].response = answer

store_without_check(entries, question, answer, file_name) ==
    Append(entries, [file_name |-> file_name, question |-> question,
                     response |-> answer])

\* store_message_history(question, response, file_name): the message history
\* it leaves
store_message_history(entries, question, answer, file_name) ==
    IF already_stored(entries, question, answer)
    THEN entries
    ELSE Append(entries, [file_name |-> file_name, question |-> question,
                          response |-> answer])

\* save_message_history(): json.dump of the message history into the file
save_message_history(file, entries) ==
    [content |-> entries, writes |-> file.writes + 1]

\* one call of store_message_history: the early return, or append and save
stores(question, answer, file_name) ==
    /\ stored' = [question |-> question, response |-> answer, file_name |-> file_name]
    /\ message_history' = store_message_history(message_history, question, answer,
                                                file_name)
    /\ history_file' =
          IF already_stored(message_history, question, answer) THEN history_file
          ELSE save_message_history(history_file, message_history')

\* the loop over response_generator: the next chunk is yielded, or the
\* generator is exhausted and the history is stored, or it raises
generate(r) ==
    /\ pc[r] = "generate"
    /\ \/ /\ Len(yielded[r]) < MaxTokens
          /\ LET content == token(Len(yielded[r]) + 1)
             IN  /\ response' = [response EXCEPT ![r] = @ \o content]
                 /\ yielded' = [yielded EXCEPT ![r] = Append(@, content)]
          /\ UNCHANGED <<pc, error_log, history, results_list>>
       \/ /\ IF top_files[r] # <<>>
             THEN stores(req[r].question, response[r], top_files[r][1])
             ELSE UNCHANGED history
          /\ pc' = [pc EXCEPT ![r] = "done"]
          /\ UNCHANGED <<response, yielded, error_log, results_list>>
       \/ /\ raise(r, "generate")
          /\ UNCHANGED <<response, history>>
    /\ UNCHANGED <<store, files, req, session, upd, resp, top_files, calls,
                   merger, ret>>

\* the generator is resumed after yield "" and returns
finish(r) ==
    /\ pc[r] = "error_yield"
    /\ pc' = [pc EXCEPT ![r] = "done"]
    /\ UNCHANGED <<store, files, history, req, session, upd, resp, stream,
                   calls, merger, ret>>

\* the client goes away while the generator is suspended at a yield: it is
\* closed there (GeneratorExit is no Exception, the except does not catch it)
disconnect(r) ==
    /\ \/ pc[r] = "generate" /\ yielded[r] # <<>>
       \/ pc[r] = "error_yield"
    /\ pc' = [pc EXCEPT ![r] = "closed"]
    /\ UNCHANGED <<store, files, history, req, session, upd, resp, stream,
                   calls, merger, ret>>

(***************************************************************************)
(* Spec: one worker that handles a question from its arrival to the end    *)
(* of its stream, while sessions are started and files are processed and   *)
(* deleted.                                                                *)
(***************************************************************************)
Worker == {"r1"}

Next ==
    \/ start_session
    \/ process_file
    \/ delete_file
    \/ \E r \in Worker :
          \/ ask_question(r)
          \/ update_session_get(r)
          \/ update_session_put(r)
          \/ embed(r)
          \/ search(r)
          \/ query_returns(r)
          \/ chat(r)
          \/ generate(r)
          \/ finish(r)
          \/ disconnect(r)

Spec == Init /\ [][Next]_vars

(***************************************************************************)
(* RaceSpec: two questions handled by two workers at once, after both      *)
(* files were processed, up to the return of the StreamingResponse.        *)
(***************************************************************************)
RaceInit ==
    /\ session_collection = <<>>
    /\ append_log = <<>>
    /\ file_hash_map = FileNames
    /\ collections = FileNames
    /\ uploads = FileNames
    /\ message_history = <<>>
    /\ history_file = [content |-> <<>>, writes |-> 0]
    /\ stored = NoStore
    /\ pc = [r \in Requests |-> "idle"]
    /\ req = [r \in Requests |-> NoRequest]
    /\ session = [r \in Requests |-> NoSession]
    /\ upd = [r \in Requests |-> NoSession]
    /\ resp = [r \in Requests |-> NoResponse]
    /\ results_list = [r \in Requests |-> <<>>]
    /\ response = [r \in Requests |-> ""]
    /\ yielded = [r \in Requests |-> <<>>]
    /\ error_log = [r \in Requests |-> "none"]
    /\ top_files = [r \in Requests |-> <<>>]
    /\ calls = [r \in Requests |-> NoCalls]
    /\ m_in = [results_list |-> <<>>, top_n |-> DefaultTopN]
    /\ m_out = [called |-> FALSE, chat4 |-> [top_chunks |-> <<>>, file_names |-> <<>>],
                chat2 |-> <<>>]
    /\ ret = NoCall

RaceNext ==
    \/ start_session
    \/ \E r \in Requests :
          \/ ask_question(r)
          \/ update_session_get(r)
          \/ update_session_put(r)

RaceSpec == RaceInit /\ [][RaceNext]_vars

(***************************************************************************)
(* SerialSpec: the same two questions with one update_session at a time: a *)
(* request enters update_session only while no other request is inside it. *)
(***************************************************************************)
update_session_get_alone(r) ==
    /\ \A other \in Requests \ {r} : pc[other] \notin {"put_user", "put_assistant"}
    /\ update_session_get(r)

SerialNext ==
    \/ start_session
    \/ \E r \in Requests :
          \/ ask_question(r)
          \/ update_session_get_alone(r)
          \/ update_session_put(r)

SerialSpec == RaceInit /\ [][SerialNext]_vars

(***************************************************************************)
(* StoreSpec: create_session, get_session and update_session called on     *)
(* their own, one call at a time, with any session id and any message.     *)
(***************************************************************************)
Messages == {Turn(role, "q1") : role \in {"user", "assistant"}}

\* update_session as one call: the documents of the session collection after
\* update_session(session_id, msg)
update_session(docs, session_id, msg) ==
    LET s == get_session(docs, session_id)
    IN  IF found(s)
        THEN put_document(docs, session_id, new_history(s.conversation_history, msg))
        ELSE docs

\* get_session(session_id): results[0], or None
get_session_call ==
    /\ \E session_id \in SessionIds :
          ret' = [op |-> "get_session", session_id |-> session_id,
                  value |-> get_session(session_collection, session_id),
                  raised |-> FALSE]
    /\ UNCHANGED <<store, files, history, pc, req, session, upd, resp,
                   stream, calls, merger>>

\* update_session(session_id, msg): falls off its end, returning None, after
\* the write or when `if session:` fails
update_session_call ==
    /\ \E session_id \in SessionIds, msg \in Messages :
          LET s == get_session(session_collection, session_id)
          IN  /\ Len(s.conversation_history) < MaxHistory
              /\ session_collection' = update_session(session_collection, session_id, msg)
              /\ append_log' = IF found(s)
                               THEN [append_log EXCEPT ![session_id] = Append(@, msg)]
                               ELSE append_log
              /\ ret' = [op |-> "update_session", session_id |-> session_id,
                         value |-> NoSession, raised |-> FALSE]
    /\ UNCHANGED <<files, history, pc, req, session, upd, resp, stream,
                   calls, merger>>

StoreNext ==
    \/ start_session
    \/ get_session_call
    \/ update_session_call

StoreSpec == Init /\ [][StoreNext]_vars

(***************************************************************************)
(* MergeSpec: combine_and_select_top_chunks on its own, on every list of   *)
(* query results within the bounds.                                        *)
(***************************************************************************)
MergerNames == <<"f1", "f2">>

MergerInputs ==
    {[i \in 1..Len(rs) |-> [collection_name |-> MergerNames[i], results |-> rs[i]]] :
        rs \in SeqsUpTo(QueryResults(MaxFrags), Len(MergerNames))}

MergeInit ==
    /\ session_collection = <<>>
    /\ append_log = <<>>
    /\ file_hash_map = {}
    /\ collections = {}
    /\ uploads = {}
    /\ message_history = <<>>
    /\ history_file = [content |-> <<>>, writes |-> 0]
    /\ stored = NoStore
    /\ pc = [r \in Requests |-> "idle"]
    /\ req = [r \in Requests |-> NoRequest]
    /\ session = [r \in Requests |-> NoSession]
    /\ upd = [r \in Requests |-> NoSession]
    /\ resp = [r \in Requests |-> NoResponse]
    /\ results_list = [r \in Requests |-> <<>>]
    /\ response = [r \in Requests |-> ""]
    /\ yielded = [r \in Requests |-> <<>>]
    /\ error_log = [r \in Requests |-> "none"]
    /\ top_files = [r \in Requests |-> <<>>]
    /\ calls = [r \in Requests |-> NoCalls]
    /\ m_in \in [results_list : MergerInputs, top_n : (1..MaxTopN) \cup {DefaultTopN}]
    /\ m_out = [called |-> FALSE, chat4 |-> [top_chunks |-> <<>>, file_names |-> <<>>],
                chat2 |-> <<>>]
    /\ ret = NoCall

merge ==
    /\ ~m_out.called
    /\ m_out' = [called |-> TRUE,
                 chat4 |-> combine_and_select_top_chunks(m_in.results_list, m_in.top_n),
                 chat2 |-> combine_and_select_top_chunks_chat2(
                              [i \in 1..Len(m_in.results_list) |->
                                  m_in.results_list[i].results], m_in.top_n)]
    /\ UNCHANGED <<store, files, history, pc, req, session, upd, resp,
                   stream, calls, m_in, ret>>

MergeNext == merge

MergeSpec == MergeInit /\ [][MergeNext]_vars

(***************************************************************************)
(* MalformedSpec: the merger on lists of query results of which at least    *)
(* one is malformed.                                                       *)
(***************************************************************************)
MalformedInputs ==
    {[i \in 1..Len(rs) |-> [collection_name |-> MergerNames[i], results |-> rs[i]]] :
        rs \in {x \in SeqsUpTo(QueryResults(MaxMalformedFrags)
                                  \cup MalformedResults(MaxMalformedFrags),
                              Len(MergerNames)) :
                   \E i \in 1..Len(x) : raises_IndexError(x[i])}}

MalformedInit ==
    /\ session_collection = <<>>
    /\ append_log = <<>>
    /\ file_hash_map = {}
    /\ collections = {}
    /\ uploads = {}
    /\ message_history = <<>>
    /\ history_file = [content |-> <<>>, writes |-> 0]
    /\ stored = NoStore
    /\ pc = [r \in Requests |-> "idle"]
    /\ req = [r \in Requests |-> NoRequest]
    /\ session = [r \in Requests |-> NoSession]
    /\ upd = [r \in Requests |-> NoSession]
    /\ resp = [r \in Requests |-> NoResponse]
    /\ results_list = [r \in Requests |-> <<>>]
    /\ response = [r \in Requests |-> ""]
    /\ yielded = [r \in Requests |-> <<>>]
    /\ error_log = [r \in Requests |-> "none"]
    /\ top_files = [r \in Requests |-> <<>>]
    /\ calls = [r \in Requests |-> NoCalls]
    /\ m_in \in [results_list : MalformedInputs, top_n : (1..MaxTopN) \cup {DefaultTopN}]
    /\ m_out = [called |-> FALSE, chat4 |-> [top_chunks |-> <<>>, file_names |-> <<>>],
                chat2 |-> <<>>]
    /\ ret = NoCall

MalformedSpec == MalformedInit /\ [][MergeNext]_vars

(***************************************************************************)
(* HistorySpec: store_message_history called again and again, one call at   *)
(* a time, on a message history loaded from its file.                      *)
(***************************************************************************)
HistoryQuestions == {"q1", "q2"}

Responses == {token(1), token(1) \o token(2)}

Entries == [file_name : FileNames, question : HistoryQuestions, response : Responses]

\* no two entries have the same question and the same response
NoDuplicates(entries) ==
    \A i, j \in 1..Len(entries) :
        i < j => ~(/\ entries[i].question = entries[j].question
                   /\ entries[i].response = entries[j].response)

\* load_message_history: the list is what the file holds
HistoryInit ==
    /\ session_collection = <<>>
    /\ append_log = <<>>
    /\ file_hash_map = {}
    /\ collections = {}
    /\ uploads = {}
    /\ message_history \in {h \in SeqsUpTo(Entries, MaxLoaded) : NoDuplicates(h)}
    /\ history_file = [content |-> message_history, writes |-> 0]
    /\ stored = NoStore
    /\ pc = [r \in Requests |-> "idle"]
    /\ req = [r \in Requests |-> NoRequest]
    /\ session = [r \in Requests |-> NoSession]
    /\ upd = [r \in Requests |-> NoSession]
    /\ resp = [r \in Requests |-> NoResponse]
    /\ results_list = [r \in Requests |-> <<>>]
    /\ response = [r \in Requests |-> ""]
    /\ yielded = [r \in Requests |-> <<>>]
    /\ error_log = [r \in Requests |-> "none"]
    /\ top_files = [r \in Requests |-> <<>>]
    /\ calls = [r \in Requests |-> NoCalls]
    /\ m_in = [results_list |-> <<>>, top_n |-> DefaultTopN]
    /\ m_out = [called |-> FALSE, chat4 |-> [top_chunks |-> <<>>, file_names |-> <<>>],
                chat2 |-> <<>>]
    /\ ret = NoCall

store_message_history_call ==
    /\ \E question \in HistoryQuestions, answer \in Responses, file_name \in FileNames :
          stores(question, answer, file_name)
    /\ UNCHANGED <<store, files, pc, req, session, upd, resp, stream, calls,
                   merger, ret>>

HistoryNext == store_message_history_call

HistorySpec == HistoryInit /\ [][HistoryNext]_vars

(***************************************************************************)
(* Properties                                                              *)
(***************************************************************************)
RECURSIVE Concat(_)
Concat(chunks) == IF chunks = <<>> THEN "" ELSE Head(chunks) \o Concat(Tail(chunks))

History(session_id) ==
    get_session(session_collection, session_id).conversation_history

\* request r is between the read and the write of an update_session
Updating(r) == pc[r] \in {"put_user", "put_assistant"}

\* ask_question was entered by r in this step
Asked(r) == pc[r] = "idle" /\ pc'[r] # "idle"

\* C1: two concurrent appends to the same session both persist: once no
\* update_session is in flight, get_session returns a history that holds
\* every turn that was appended, as often as it was appended.
C1_BothAppendsPersist ==
    (\A r \in Requests : ~Updating(r)) =>
        \A session_id \in DOMAIN session_collection :
            \A i \in 1..Len(append_log[session_id]) :
                Count(History(session_id), append_log[session_id][i])
                    >= Count(append_log[session_id], append_log[session_id][i])

\* C2: turns appended one update_session at a time are read back by
\* get_session exactly as appended, in the order of the appends, after the
\* turns the session held before.
C2_SequentialRoundTrip ==
    \A session_id \in DOMAIN session_collection :
        History(session_id) = append_log[session_id]

C2_Witness ==
    \E session_id \in DOMAIN session_collection :
        /\ Len(append_log[session_id]) = 4
        /\ History(session_id) = append_log[session_id]
        /\ History(session_id)[1].role = "user"
        /\ History(session_id)[2].role = "user"
        /\ History(session_id)[3].role = "assistant"
        /\ \A r \in Requests : pc[r] = "embed"

\* C3: a session's history is append-only: every step leaves each stored
\* conversation_history a prefix of its next value.
C3_AppendOnly ==
    [][\A session_id \in DOMAIN session_collection :
          IsPrefix(session_collection[session_id],
                   session_collection'[session_id])]_vars

\* C4: the merger returns min(top_n, total fragments) texts; the fragments
\* they come from are in ascending order of distance, are fragments of the
\* input (each used no more often than it occurs) and no fragment left out
\* has a smaller distance than one that was taken.
C4_TopKAscending ==
    m_out.called =>
        LET all == combined_results(m_in.results_list)
            sel == selected(m_in.results_list, m_in.top_n)
            out == m_out.chat4
        IN  /\ Len(out.top_chunks) = Min(m_in.top_n, Len(all))
            /\ m_out.chat2 = out.top_chunks
            /\ Len(out.file_names) = Len(out.top_chunks)
            /\ Len(sel) = Len(out.top_chunks)
            /\ \A i \in 1..Len(sel) :
                  out.top_chunks[i] = sel[i].doc /\ out.file_names[i] = sel[i].file_name
            /\ \A i, j \in 1..Len(sel) : i < j => sel[i].distance <= sel[j].distance
            /\ \A i \in 1..Len(sel) : Count(sel, sel[i]) <= Count(all, sel[i])
            /\ \A i \in 1..Len(all) :
                  Count(all, all[i]) > Count(sel, all[i]) =>
                      \A j \in 1..Len(sel) : sel[j].distance <= all[i].distance

C4_Witness ==
    /\ m_out.called
    /\ Len(combined_results(m_in.results_list)) > m_in.top_n
    /\ Len(m_in.results_list) = 2
    /\ m_in.results_list[1].results.documents = <<<<"A">>>>
    /\ m_in.results_list[1].results.distances = <<<<1>>>>
    /\ Len(m_in.results_list[2].results.distances[1]) = 2
    /\ m_in.results_list[2].results.distances[1][1] = 0
    /\ m_out.chat4.top_chunks = <<"B", "A">>
    /\ m_out.chat2 = <<"B", "A">>

\* the place a fragment takes when fragments are ranked by distance and,
\* between equal distances, by their place in the input
Rank(all, i) ==
    1 + Cardinality({j \in 1..Len(all) :
                        \/ all[j].distance < all[i].distance
                        \/ all[j].distance = all[i].distance /\ j < i})

\* C5: fragments of equal distance stay in input order, the earlier
\* collection (and the earlier fragment of one collection) first, whatever
\* their texts, also where the list is cut at top_n.
C5_TiesKeepInputOrder ==
    m_out.called =>
        LET all == combined_results(m_in.results_list)
            out == m_out.chat4
        IN  /\ Len(out.top_chunks) <= m_in.top_n
            /\ \A i \in 1..Len(all) :
                  Rank(all, i) <= m_in.top_n =>
                      /\ Rank(all, i) <= Len(out.top_chunks)
                      /\ out.top_chunks[Rank(all, i)] = all[i].doc
                      /\ out.file_names[Rank(all, i)] = all[i].file_name
                      /\ m_out.chat2[Rank(all, i)] = all[i].doc

C5_Witness ==
    /\ m_out.called
    /\ m_in.top_n = 1
    /\ Len(m_in.results_list) = 2
    /\ m_in.results_list[1].results = [distances |-> <<<<0>>>>, documents |-> <<<<"B">>>>]
    /\ m_in.results_list[2].results = [distances |-> <<<<0>>>>, documents |-> <<<<"A">>>>]
    /\ m_out.chat4.top_chunks = <<"B">>
    /\ m_out.chat4.file_names = <<MergerNames[1]>>

\* a file name of the request that the registry does not hold
NamesAbsentFile(file_names) ==
    \E i \in 1..Len(file_names) : file_names[i] \notin file_hash_map

\* the error names the first file name of the request the registry lacks
NamesFirstAbsent(error, file_names) ==
    \E i \in 1..Len(file_names) :
        /\ file_names[i] \notin file_hash_map
        /\ \A j \in 1..(i - 1) : file_names[j] \in file_hash_map
        /\ error = "File not found: " \o file_names[i]

\* request r was turned away in this step without any call or append
TurnedAway(r) ==
    /\ pc'[r] = "done"
    /\ calls'[r] = NoCalls
    /\ session_collection' = session_collection

C7_SessionCheckedFirst ==
    [][\A r \in Requests :
          (Asked(r) /\ req'[r].session_id \notin DOMAIN session_collection) =>
              /\ TurnedAway(r)
              /\ resp'[r].status = (IF req'[r].session_id = "" THEN 400 ELSE 404)
              /\ resp'[r].error = (IF req'[r].session_id = "" THEN "Session ID is required"
                                   ELSE "Session not found")]_vars

C7_Witness ==
    \E r \in Requests :
        /\ pc[r] = "done"
        /\ req[r].session_id = "s2"
        /\ req[r].question = "q1"
        /\ req[r].file_names = <<"f1">>
        /\ file_hash_map = {"f1"}
        /\ DOMAIN session_collection = {"s1"}
        /\ resp[r].status = 404
        /\ calls[r] = NoCalls

\* every collection r targets was searched and no search succeeded
AllSearchesFailed(r) ==
    /\ error_log[r] = "search"
    /\ calls[r].search = req[r].file_names
    /\ Len(calls[r].search) = 1

\* C8: when the search of every targeted collection fails, the request fails
\* (a server-side failure) and has added no turn to the session.
C8_NoTurnsWhenRetrievalFails ==
    \A r \in Requests :
        AllSearchesFailed(r) => resp[r].status >= 500 /\ calls[r].append = <<>>

\* C9: when the generator fails after it produced some text, the session's
\* history holds an assistant turn whose content is that text.
C9_PartialTextPersisted ==
    \A r \in Requests :
        (error_log[r] = "generate" /\ Concat(yielded[r]) # "") =>
            \E i \in 1..Len(History(req[r].session_id)) :
                History(req[r].session_id)[i] = Turn("assistant", Concat(yielded[r]))

\* the token stream of r ended with the generator exhausted
EndedNormally(r) == pc[r] = "done" /\ resp[r].status = 200 /\ error_log[r] = "none"

\* C10: when the stream ends normally the history holds an assistant turn
\* whose content is the concatenation of the chunks relayed, and a request
\* writes its assistant turn only once its stream has ended.
C10_AssistantTurnIsStreamedText ==
    \A r \in Requests :
        /\ EndedNormally(r) =>
              \E i \in 1..Len(History(req[r].session_id)) :
                  History(req[r].session_id)[i] = Turn("assistant", Concat(yielded[r]))
        /\ (\E i \in 1..Len(calls[r].append) : calls[r].append[i].role = "assistant") =>
              pc[r] \in {"done", "closed"}

\* C11: a request that got past the checks has appended its user turn before
\* its embedding and generation calls and before its assistant turn; after one
\* question whose stream ended normally, on a session nothing else appended
\* to, the history is that user turn followed by one assistant turn.
C11_UserTurnThenAssistantTurn ==
    \A r \in Requests :
        LET appended == calls[r].append
            user_turn == Turn("user", req[r].question)
        IN  /\ (calls[r].embed > 0 \/ calls[r].chat > 0 \/ yielded[r] # <<>>) =>
                  appended # <<>> /\ appended[1] = user_turn
            /\ \A i \in 1..Len(appended) :
                  appended[i].role = "assistant" => i = 2 /\ appended[1] = user_turn
            /\ (EndedNormally(r) /\ append_log[req[r].session_id] = appended) =>
                  /\ Len(History(req[r].session_id)) = 2
                  /\ History(req[r].session_id)[1] = user_turn
                  /\ History(req[r].session_id)[2].role = "assistant"

C11_Witness ==
    \E r \in Requests :
        /\ EndedNormally(r)
        /\ Len(yielded[r]) = MaxTokens
        /\ req[r].file_names # <<>>
        /\ History(req[r].session_id) =
              <<Turn("user", "q1"), Turn("assistant", generate_response(<<>>))>>

\* the stream of r ended after a search failed although an earlier one of
\* the same request had returned its result
OneSearchFailedOfSeveral(r) ==
    /\ error_log[r] = "search"
    /\ Len(calls[r].search) >= 2
    /\ pc[r] = "done"

\* C12: when the search of one targeted collection fails and that of another
\* succeeded, the request goes on: the language model is called with the
\* context of the collections that answered.
C12_OneFailedSearchIsSkipped ==
    \A r \in Requests : OneSearchFailedOfSeveral(r) => calls[r].chat > 0

\* a search of r is in flight: the index was called and has not returned
InFlight(r) == pc[r] = "query"

\* C16: while the search of one collection is in flight and the request
\* targets a collection it has not searched yet, the search of that
\* collection can start: it does not wait for the one in flight to return.
C16_SearchesDispatchedConcurrently ==
    \A r \in Requests :
        (InFlight(r) /\ Len(calls[r].search) < Len(req[r].file_names)) =>
            ENABLED search(r)

\* the text r accumulated is kept: as an assistant turn of its session, or
\* as the response of an entry of the message history
TextKept(r) ==
    \/ \E i \in 1..Len(History(req[r].session_id)) :
          History(req[r].session_id)[i] = Turn("assistant", response[r])
    \/ \E i \in 1..Len(message_history) :
          /\ message_history[i].question = req[r].question
          /\ message_history[i].response = response[r]

\* C13: when the caller disconnects while the generator is suspended at a
\* yield, the text accumulated up to that point is written to history.
C13_DisconnectKeepsPartialText ==
    \A r \in Requests : (pc[r] = "closed" /\ response[r] # "") => TextKept(r)

\* the call reported that the session does not exist: it raised, or it
\* returned something other than the None a completed append returns
ReportedNotFound(call) == call.raised \/ call.value # NoSession

\* C14: update_session on a session id that is not in the store reports
\* not-found to its caller and leaves the store as it was; get_session on
\* such an id returns no session.
C14_AppendToAbsentReportsNotFound ==
    [][(ret' # ret /\ ret'.session_id \notin DOMAIN session_collection) =>
          /\ ret'.op = "update_session" =>
                session_collection' = session_collection /\ ReportedNotFound(ret')
          /\ ret'.op = "get_session" => ~found(ret'.value)]_vars

\* C15: the merger does not deduplicate: each text is in the output once for
\* every fragment with that text that ranks within top_n by distance; a text
\* found in two collections, both fragments within top_n, is there twice,
\* once under each collection's name.
C15_DuplicateTextsBothKept ==
    m_out.called =>
        LET all == combined_results(m_in.results_list)
            out == m_out.chat4
            top == {i \in 1..Len(all) : Rank(all, i) <= m_in.top_n}
        IN  /\ \A t \in Texts :
                  /\ Count(out.top_chunks, t) = Cardinality({i \in top : all[i].doc = t})
                  /\ Count(m_out.chat2, t) = Cardinality({i \in top : all[i].doc = t})
            /\ \A i, j \in top :
                  (all[i].doc = all[j].doc /\ all[i].file_name # all[j].file_name) =>
                      \E p, q \in 1..Len(out.top_chunks) :
                          /\ p # q
                          /\ out.top_chunks[p] = all[i].doc
                          /\ out.top_chunks[q] = all[i].doc
                          /\ out.file_names[p] = all[i].file_name
                          /\ out.file_names[q] = all[j].file_name

C15_Witness ==
    /\ m_out.called
    /\ m_in.top_n = 2
    /\ Len(m_in.results_list) = 2
    /\ m_in.results_list[1].results = [distances |-> <<<<0>>>>, documents |-> <<<<"A">>>>]
    /\ m_in.results_list[2].results = [distances |-> <<<<1>>>>, documents |-> <<<<"A">>>>]
    /\ m_out.chat4.top_chunks = <<"A", "A">>
    /\ m_out.chat4.file_names = MergerNames
    /\ m_out.chat2 = <<"A", "A">>

\* request r is inside update_session
InUpdateSession(r) ==
    pc[r] \in {"update_user", "put_user", "update_assistant", "put_assistant"}

\* C17: a step of update_session(id, message) leaves the set of session ids
\* and the history of every session other than id as they were, whatever
\* the other request is doing; while the requests are on different sessions
\* every session holds exactly the turns appended to it, in order.
C17_AppendTouchesOneSession ==
    [][/\ \A r \in Requests :
             (InUpdateSession(r) /\ pc'[r] # pc[r]) =>
                 /\ DOMAIN session_collection' = DOMAIN session_collection
                 /\ \A session_id \in DOMAIN session_collection \ {req[r].session_id} :
                       session_collection'[session_id] = session_collection[session_id]
       /\ (\A r1, r2 \in Requests :
               r1 # r2 => req'[r1].session_id # req'[r2].session_id) =>
             \A session_id \in DOMAIN session_collection' :
                 session_collection'[session_id] = append_log'[session_id]]_vars

C17_Witness ==
    /\ req["r1"].session_id = "s1"
    /\ req["r2"].session_id = "s2"
    /\ \A r \in Requests : pc[r] = "embed"
    /\ \A session_id \in SessionIds :
          /\ Len(History(session_id)) = 2
          /\ History(session_id) = append_log[session_id]

\* C18: once embedding, collection lookup, search or generation has raised,
\* the chunks yielded are the tokens yielded before, then one empty string;
\* the generator then returns (or is closed by the caller), no chunk
\* follows, and the response keeps the status 200 of a stream.
C18_ErrorYieldsEmptyStringAndEnds ==
    \A r \in Requests :
        error_log[r] # "none" =>
            LET n == Len(yielded[r])
            IN  /\ pc[r] \in {"error_yield", "done", "closed"}
                /\ resp[r] = [status |-> 200, error |-> ""]
                /\ n >= 1
                /\ yielded[r][n] = ""
                /\ \A i \in 1..(n - 1) : yielded[r][i] = token(i)
                /\ Concat(yielded[r]) = response[r]
                /\ error_log[r] # "generate" => n = 1

C18_Witness ==
    \E r \in Requests :
        /\ pc[r] = "done"
        /\ error_log[r] = "generate"
        /\ yielded[r] = <<token(1), "">>

\* C19: every file name of a question that passes the checks of ask_question
\* names a collection of the vector index.
C19_AcceptedNamesHaveCollections ==
    [][\A r \in Requests :
          (Asked(r) /\ pc'[r] = "update_user") =>
              \A i \in 1..Len(req'[r].file_names) :
                  req'[r].file_names[i] \in collections]_vars

\* C20: when the result of any one collection lacks its distances or its
\* documents (the key missing, or its outer list empty), the merger returns
\* nothing at all, in both variants: the fragments of the other collections
\* are dropped with it.
C20_MalformedResultEmptiesAll ==
    m_out.called =>
        ((\E i \in 1..Len(m_in.results_list) :
              \/ Len(m_in.results_list[i].results.distances) = 0
              \/ Len(m_in.results_list[i].results.documents) = 0) =>
            /\ m_out.chat4 = [top_chunks |-> <<>>, file_names |-> <<>>]
            /\ m_out.chat2 = <<>>)

C20_Witness ==
    /\ m_out.called
    /\ Len(m_in.results_list) = 2
    /\ m_in.results_list[1].results = [distances |-> <<<<0>>>>, documents |-> <<<<"A">>>>]
    /\ m_in.results_list[2].results = [distances |-> <<<<1>>>>, documents |-> <<>>]
    /\ m_out.chat4 = [top_chunks |-> <<>>, file_names |-> <<>>]
    /\ m_out.chat2 = <<>>

====
